---- MODULE Spec2Model ----
(***************************************************************************)
(* The synthesis session engine of the streaming TTS service               *)
(* (StreamingTTSService): one engine object, the upstream sockets it       *)
(* opens, and the synthesizeText calls made on it.                         *)
(*                                                                         *)
(* Every action is one run-to-completion step of the Node.js event loop:  *)
(* a public method call, or one socket event, together with the promise    *)
(* reactions (microtasks) and process.nextTick callbacks it schedules.     *)
(* The sockets behave as those of the ws package (^8.14.2).                *)
(***************************************************************************)
EXTENDS Integers, Sequences, FiniteSets, TLC

\* ------------------------------------------------------------------ bounds
\* inputs in one behaviour: accepted synthesizeText calls, stopSynthesis and
\* updateConfig calls, requests, status reads, and upstream frames (socket
\* open, error and close events are bounded by the sockets, rejected calls
\* change nothing)
MaxOps == 4

\* requests to POST /synthesize-stream in one behaviour
MaxReqs == 2

Calls == 1..MaxOps
Reqs == 1..MaxReqs
\* The socket created by call k is socket k; the session id of call k is k.
NoSock == 0
NoSession == 0
Socks == Calls

VARIABLES
    config,            \* this.config
    isProcessing,      \* this.isProcessing
    wsClient,          \* this.wsClient: NoSock (null) or a socket
    audioChunks,       \* this.audioChunks: sequence of byte sequences
    currentSessionId,  \* this.currentSessionId: NoSession (null) or a session
    listeners,         \* calls whose onComplete/onError are registered
    calls,             \* the promise of every synthesizeText call
    socks,             \* every WebSocket the engine created
    emitted,           \* every this.emit(...), in order
    crashed,           \* an exception escaped a handler: the process exits
    lastThrow,         \* what the latest synthesizeText call threw at once
    nCalls,            \* synthesizeText calls accepted so far
    nOps,              \* inputs so far
    reqs,              \* every request to POST /synthesize-stream
    nReqs,             \* requests to POST /synthesize-stream so far
    received,          \* every frame the 'message' handler was called with
    returned           \* what the latest getConfig or getIsProcessing call
                       \* returned, as its caller holds it now

vars == <<config, isProcessing, wsClient, audioChunks, currentSessionId,
          listeners, calls, socks, emitted, crashed, lastThrow,
          nCalls, nOps, reqs, nReqs, received, returned>>

\* ------------------------------------------------------------ configuration
DEFAULT_CONFIG ==
    [token |-> "", wsUrl |-> "wss://ws.coze.cn", voiceId |-> "",
     enabled |-> TRUE, sampleRate |-> 24000, channels |-> 1,
     speed |-> 10, format |-> "pcm"]

\* { ...DEFAULT_CONFIG, ...b }: fields that b lacks fall back to the defaults
MergeIntoDefaults(a, b) ==
    [f \in DOMAIN a |-> IF f \in DOMAIN b THEN b[f] ELSE DEFAULT_CONFIG[f]]

\* { ...a, ...b }: fields of b override those of a
Merge(a, b) == [f \in DOMAIN a |-> IF f \in DOMAIN b THEN b[f] ELSE a[f]]

\* the configuration the controller constructs the service with
ControllerConfig == [token |-> "tok", voiceId |-> "v1"]

\* constructor arguments considered: none, and the controller's
ConstructorArgs == { [enabled |-> TRUE], ControllerConfig }

\* partial configurations passed to updateConfig
Partials ==
    { [enabled |-> FALSE], [token |-> ""], [wsUrl |-> ""],
      [voiceId |-> "v2", speed |-> 12] }

\* ------------------------------------------------------------------ frames
\* Bytes are 0..255; base64 text is a sequence of sextets 0..63 (64 is '=').
\* undefined (a field that is not present)
Absent == <<-1>>

RECURSIVE B64Decode(_)
B64Decode(s) ==
    IF Len(s) < 2 \/ s[1] = 64 \/ s[2] = 64 THEN <<>>
    ELSE LET b1 == (s[1] * 4 + s[2] \div 16) % 256
         IN IF Len(s) = 2 \/ s[3] = 64 THEN <<b1>>
            ELSE LET b2 == ((s[2] % 16) * 16 + s[3] \div 4) % 256
                 IN IF Len(s) = 3 \/ s[4] = 64 THEN <<b1, b2>>
                    ELSE LET b3 == ((s[3] % 4) * 64 + s[4]) % 256
                         IN <<b1, b2, b3>> \o B64Decode(SubSeq(s, 5, Len(s)))

\* a JSON text frame: event_type and the three audio field paths
JsonFrame(et, delta, oa, data) ==
    [brace |-> TRUE, parses |-> TRUE, event_type |-> et,
     delta |-> delta, output_audio |-> oa, data |-> data, bytes |-> <<>>]
\* a frame that is not JSON; brace: its first character is '{'
RawFrame(bytes, brace) ==
    [brace |-> brace, parses |-> FALSE, event_type |-> "",
     delta |-> Absent, output_audio |-> Absent, data |-> Absent, bytes |-> bytes]

QUJD == <<16, 20, 9, 3>>
ABC == <<65, 66, 67>>

DeltaFrame == JsonFrame("speech.audio.update", QUJD, Absent, Absent)
CompletedFrame == JsonFrame("speech.completed", Absent, Absent, Absent)
FailedFrame == JsonFrame("speech.failed", Absent, Absent, Absent)

\* the frames the upstream sends in Spec
Frames == {DeltaFrame, CompletedFrame, FailedFrame}

\* "REU=" and the bytes DE it encodes
REU == <<17, 4, 20, 64>>
DE == <<68, 69>>
\* audio under data.output_audio.data, in a speech.audio.chunk event
ChunkFrame == JsonFrame("speech.audio.chunk", Absent, REU, Absent)
\* an audio event whose delta is the empty string
EmptyDeltaFrame == JsonFrame("speech.audio.update", <<>>, Absent, Absent)
\* an audio event whose delta, "=", decodes to no bytes
PaddingFrame == JsonFrame("speech.audio.update", <<64>>, Absent, Absent)
\* binary frames: the byte F, and no bytes at all
BinaryFrame == RawFrame(<<70>>, FALSE)
EmptyBinaryFrame == RawFrame(<<>>, FALSE)

\* the frames the upstream sends in FrameSpec
AudioFrames ==
    {DeltaFrame, ChunkFrame, EmptyDeltaFrame, PaddingFrame, BinaryFrame,
     EmptyBinaryFrame, CompletedFrame}

\* a binary frame whose first byte is '{' (0x7B): the bytes "{F"
BraceBinaryFrame == RawFrame(<<123, 70>>, TRUE)
\* audio under data.data
DataFrame == JsonFrame("speech.audio.update", Absent, Absent, QUJD)
\* data.delta is the empty string and data.data holds audio
EmptyDeltaWithDataFrame == JsonFrame("speech.audio.update", <<>>, Absent, QUJD)
\* data.delta and data.output_audio.data both hold audio
DeltaAndChunkFrame == JsonFrame("speech.audio.update", QUJD, REU, Absent)
\* a JSON frame of an event type the handler does not know
UnknownFrame == JsonFrame("conversation.created", Absent, Absent, Absent)

\* the frames the upstream sends in ClassifySpec
ClassifierFrames ==
    AudioFrames \cup
      {BraceBinaryFrame, DataFrame, EmptyDeltaWithDataFrame,
       DeltaAndChunkFrame, UnknownFrame, FailedFrame}

\* ------------------------------------------------------- message classifier
\* msg.data?.delta ?? msg.data?.output_audio?.data ?? msg.data?.data ?? ''
AudioField(f) ==
    IF f.delta # Absent THEN f.delta
    ELSE IF f.output_audio # Absent THEN f.output_audio
    ELSE IF f.data # Absent THEN f.data
    ELSE <<>>

AudioEventTypes == {"speech.audio.update", "speech.audio.chunk"}

\* the classification as it would be if a frame that is not understood ended
\* the session instead of being dropped
ClassifyUnknownAsComplete(f) ==
    IF f.brace
    THEN IF ~f.parses THEN [kind |-> "complete", bytes |-> <<>>]
         ELSE IF f.event_type \in AudioEventTypes
              THEN IF AudioField(f) # <<>>
                   THEN [kind |-> "audio", bytes |-> B64Decode(AudioField(f))]
                   ELSE [kind |-> "drop", bytes |-> <<>>]
         ELSE [kind |-> "complete", bytes |-> <<>>]
    ELSE [kind |-> "audio", bytes |-> f.bytes]

\* What handleWebSocketMessage does with a frame: hand bytes to handleAudioData
\* ("audio"), call handleSynthesisComplete ("complete"), or nothing ("drop").
Classify(f) ==
    IF f.brace
    THEN IF ~f.parses THEN [kind |-> "drop", bytes |-> <<>>]
         ELSE IF f.event_type \in AudioEventTypes
              THEN IF AudioField(f) # <<>>
                   THEN [kind |-> "audio", bytes |-> B64Decode(AudioField(f))]
                   ELSE [kind |-> "drop", bytes |-> <<>>]
         ELSE IF f.event_type = "speech.completed"
              THEN [kind |-> "complete", bytes |-> <<>>]
         ELSE [kind |-> "drop", bytes |-> <<>>]
    ELSE [kind |-> "audio", bytes |-> f.bytes]

\* Buffer.concat as it would be if it joined the chunks last to first
RECURSIVE ConcatBackwards(_)
ConcatBackwards(chunks) ==
    IF chunks = <<>> THEN <<>>
    ELSE ConcatBackwards(Tail(chunks)) \o Head(chunks)

\* Buffer.concat
RECURSIVE Concat(_)
Concat(chunks) ==
    IF chunks = <<>> THEN <<>> ELSE Head(chunks) \o Concat(Tail(chunks))

\* ------------------------------------------------------------------ helpers
\* The engine object, its sockets and its callers' promises as one record, so
\* that a handler is an operator from record to record.
St ==
    [isProcessing |-> isProcessing, wsClient |-> wsClient,
     audioChunks |-> audioChunks, currentSessionId |-> currentSessionId,
     listeners |-> listeners, calls |-> calls, socks |-> socks,
     emitted |-> emitted, crashed |-> crashed, reqs |-> reqs]

\* res.write(...) of an SSE event: after res.end() nothing is written any
\* more and the write fails (ERR_STREAM_WRITE_AFTER_END)
Write(rq, type, sessionId) ==
    IF rq.ended THEN [rq EXCEPT !.late = TRUE]
    ELSE [rq EXCEPT !.written =
              Append(@, [type |-> type, sessionId |-> sessionId])]

\* the catch block of synthesizeStream
\* the catch block of synthesize: the response is the 500 document
SynthesizeCatch(rq) == [rq EXCEPT !.status = "500", !.ended = TRUE]

StreamCatch(rq) == [Write(rq, "error", rq.call) EXCEPT !.ended = TRUE]

\* The continuation of `await ttsService.synthesizeText(...)` in
\* synthesizeStream and synthesize, for every request whose call was settled
\* in this step: a rejected call throws into the catch block of its handler,
\* and a resolved call of synthesize is answered with 200 and the audio.
AwaitThrows(st) ==
    [st EXCEPT !.reqs = [r \in Reqs |->
        LET k == st.reqs[r].call IN
          IF k # 0 /\ calls[k].status # "rejected"
                   /\ st.calls[k].status = "rejected"
          THEN IF st.reqs[r].status = "sse" THEN StreamCatch(st.reqs[r])
               ELSE SynthesizeCatch(st.reqs[r])
          ELSE IF k # 0 /\ st.reqs[r].status = "awaiting"
                        /\ st.calls[k].status = "resolved"
          THEN [st.reqs[r] EXCEPT !.status = "200", !.ended = TRUE]
          ELSE st.reqs[r]]]

\* the state at the end of a step whose handlers leave st
Becomes(st) ==
    LET t == AwaitThrows(st) IN
    /\ isProcessing' = t.isProcessing
    /\ wsClient' = t.wsClient
    /\ audioChunks' = t.audioChunks
    /\ currentSessionId' = t.currentSessionId
    /\ listeners' = t.listeners
    /\ calls' = t.calls
    /\ socks' = t.socks
    /\ emitted' = t.emitted
    /\ crashed' = t.crashed
    /\ reqs' = t.reqs

\* a notification as this.emit(type, ...) hands it to the listeners `to`;
\* only audioChunk carries a size, audioBuffer.length of the chunk it carries
Event(st, type, data, err, to) ==
    [type |-> type, sessionId |-> st.currentSessionId, data |-> data,
     size |-> IF type = "audioChunk" THEN Len(data) ELSE 0,
     err |-> err, to |-> to]

\* resolve(...) / reject(...) of call k: only the first settlement counts
Settle(cs, k, status, err, audio) ==
    IF cs[k].status = "pending"
    THEN [cs EXCEPT ![k] = [status |-> status, err |-> err, audio |-> audio]]
    ELSE cs

\* resolve(...) / reject(...) of every call in ks
SettleAll(cs, ks, status, err, audio) ==
    [k \in Calls |-> IF k \in ks THEN Settle(cs, k, status, err, audio)[k]
                     ELSE cs[k]]

NoCall == [status |-> "none", err |-> "", audio |-> <<>>]
\* status: "none", "400" (validation failed) or "sse" (event stream);
\* listening: onAudioChunk, onComplete, onError are registered on the service
NoReq == [status |-> "none", call |-> 0, written |-> <<>>, ended |-> FALSE,
          late |-> FALSE, listening |-> FALSE, closed |-> FALSE]
\* url: the token and voice_id parameters of the URL the socket connects to
NoSocket == [state |-> "none", init |-> "none", sent |-> <<>>,
             url |-> [token |-> "", voiceId |-> ""]]

\* of: the method that returned; flag: the boolean of getIsProcessing;
\* config: the object of getConfig; shared: that object is this.config itself
NoReturn ==
    [of |-> "none", flag |-> FALSE, config |-> DEFAULT_CONFIG,
     shared |-> FALSE]

Init ==
    /\ config \in {Merge(DEFAULT_CONFIG, a) : a \in ConstructorArgs}
    /\ isProcessing = FALSE
    /\ wsClient = NoSock
    /\ audioChunks = <<>>
    /\ currentSessionId = NoSession
    /\ listeners = {}
    /\ calls = [k \in Calls |-> NoCall]
    /\ socks = [s \in Socks |-> NoSocket]
    /\ emitted = <<>>
    /\ crashed = FALSE
    /\ lastThrow = "none"
    /\ nCalls = 0 /\ nOps = 0
    /\ reqs = [r \in Reqs |-> NoReq]
    /\ nReqs = 0
    /\ received = <<>>
    /\ returned = NoReturn

\* ------------------------------------------------- listeners of the stream
\* onAudioChunk, onComplete and onError of synthesizeStream, for request rq
StreamOnAudioChunk(rq, ev) == Write(rq, "audioChunk", ev.sessionId)
StreamOnComplete(rq, ev) ==
    [Write(rq, "complete", ev.sessionId)
        EXCEPT !.ended = TRUE, !.listening = FALSE]
StreamOnError(rq, ev) ==
    [Write(rq, "error", rq.call) EXCEPT !.ended = TRUE, !.listening = FALSE]

Listening(st) == {r \in Reqs : st.reqs[r].listening}

\* this.emit(...) of the service: the event is recorded and handed to the
\* listeners of every streaming request that has them registered
Emit(st, ev) ==
    [st EXCEPT !.emitted = Append(@, ev),
               !.reqs = [r \in Reqs |->
                   IF ~st.reqs[r].listening THEN st.reqs[r]
                   ELSE CASE ev.type = "audioChunk" ->
                               StreamOnAudioChunk(st.reqs[r], ev)
                          [] ev.type = "complete" ->
                               StreamOnComplete(st.reqs[r], ev)
                          [] ev.type = "error" ->
                               StreamOnError(st.reqs[r], ev)
                          [] OTHER -> st.reqs[r]]]

\* ---------------------------------------------------------- engine handlers
\* onComplete of every registered call, as emit('complete', data) runs them
OnComplete(st, audio) ==
    [st EXCEPT !.listeners = {},
               !.calls = SettleAll(@, st.listeners, "resolved", "", audio)]

\* onError as it would be without its assignment to isProcessing
OnErrorKeepsLock(st, err) ==
    [st EXCEPT !.listeners = {},
               !.calls = SettleAll(@, st.listeners, "rejected", err, <<>>)]

\* onError of every registered call, as emit('error', error) runs them
OnError(st, err) ==
    [st EXCEPT !.listeners = {},
               !.isProcessing = FALSE,
               !.calls = SettleAll(@, st.listeners, "rejected", err, <<>>)]

\* this.emit('error', error): with no 'error' listener, emit throws
EmitError(st, err) ==
    IF st.listeners = {} /\ Listening(st) = {}
    THEN [st EXCEPT !.crashed = TRUE]
    ELSE OnError(Emit(st, Event(st, "error", <<>>, err, st.listeners)), err)

\* handleSynthesisComplete as it would be without its final clean-up
HandleSynthesisCompleteNoCleanUp(st) ==
    LET totalAudio == Concat(st.audioChunks)
        a == [st EXCEPT !.isProcessing = FALSE]
    IN OnComplete(
           Emit(a, Event(a, "complete", totalAudio, "", a.listeners)),
           totalAudio)

\* handleSynthesisComplete
HandleSynthesisComplete(st) ==
    LET totalAudio == Concat(st.audioChunks)
        a == [st EXCEPT !.isProcessing = FALSE]
        b == OnComplete(
                 Emit(a, Event(a, "complete", totalAudio, "", a.listeners)),
                 totalAudio)
    IN [b EXCEPT !.audioChunks = <<>>, !.currentSessionId = NoSession]

\* handleAudioData as it would be without the check of the length
HandleAudioDataAnyLength(st, audioBuffer) ==
    Emit([st EXCEPT !.audioChunks = Append(@, audioBuffer)],
         Event(st, "audioChunk", audioBuffer, "", {}))

\* handleAudioData, on the decoded bytes
HandleAudioData(st, audioBuffer) ==
    IF Len(audioBuffer) = 0 THEN st
    ELSE Emit([st EXCEPT !.audioChunks = Append(@, audioBuffer)],
              Event(st, "audioChunk", audioBuffer, "", {}))

\* handleWebSocketMessage
HandleWebSocketMessage(st, f) ==
    LET c == Classify(f) IN
      CASE c.kind = "audio" -> HandleAudioData(st, c.bytes)
        [] c.kind = "complete" -> HandleSynthesisComplete(st)
        [] OTHER -> st

\* the 'open' handler of socket s: resolve() of the initialisation, then the
\* .then reaction of the call that created s, which sends the request frame
\* on this.wsClient, or throws into .catch(reject)
WsOnOpen(st, s) ==
    LET a == [st EXCEPT !.socks[s].init = "resolved"]
        request == [call |-> s, voiceId |-> config.voiceId,
                    speed |-> config.speed]
    IN IF a.wsClient # NoSock /\ a.socks[a.wsClient].state = "open"
       THEN [a EXCEPT !.socks[a.wsClient].sent = Append(@, request)]
       ELSE [a EXCEPT !.calls = Settle(@, s, "rejected", "NotReady", <<>>)]

\* the 'error' handler of socket s: emit('error', error), then reject(error)
\* of the initialisation, which .catch(reject) passes to the call
WsOnError(st, s) ==
    LET a == EmitError(st, "SocketError")
    IN IF a.crashed THEN a
       ELSE IF a.socks[s].init = "pending"
       THEN [a EXCEPT !.socks[s].init = "rejected",
                      !.calls = Settle(@, s, "rejected", "SocketError", <<>>)]
       ELSE a

\* the 'close' handler as it would be if it connected again
WsOnCloseReconnects(st, s) ==
    [st EXCEPT !.isProcessing = FALSE, !.wsClient = s,
               !.socks[s].state = "connecting"]

\* the 'close' handler of socket s
WsOnClose(st, s) ==
    [st EXCEPT !.isProcessing = FALSE, !.wsClient = NoSock]

\* ------------------------------------------------------- the ws environment
\* A handshake that fails or is aborted reports 'error' and then 'close' in
\* one go; when the 'error' handler throws, 'close' is not reported.
ErrorAndClose(st, s) ==
    LET a == WsOnError([st EXCEPT !.socks[s].state = "errored"], s)
    IN IF a.crashed THEN a
       ELSE WsOnClose([a EXCEPT !.socks[s].state = "closed"], s)

\* WebSocket.close(): a connecting socket aborts its handshake; an open one
\* starts the closing handshake; otherwise nothing
CloseSocket(st, s) ==
    CASE st.socks[s].state = "connecting" -> ErrorAndClose(st, s)
      [] st.socks[s].state = "open" -> [st EXCEPT !.socks[s].state = "closing"]
      [] OTHER -> st

\* ------------------------------------------------------------ synthesizeText
\* the longest text the HTTP validation lets through (isLength max)
MaxTextLength == 5000

\* String.prototype.repeat
RECURSIVE Repeat(_, _)
Repeat(s, n) ==
    IF n = 0 THEN ""
    ELSE IF n % 2 = 0 THEN LET h == Repeat(s, n \div 2) IN h \o h
    ELSE s \o Repeat(s, n - 1)

\* String.prototype.trim, for texts whose only whitespace is the space
RECURSIVE Trim(_)
Trim(text) ==
    IF text = "" THEN ""
    ELSE IF SubSeq(text, 1, 1) = " " THEN Trim(SubSeq(text, 2, Len(text)))
    ELSE IF SubSeq(text, Len(text), Len(text)) = " "
         THEN Trim(SubSeq(text, 1, Len(text) - 1))
    ELSE text

LongText == Repeat("a", MaxTextLength + 1)

\* texts passed to synthesizeText: empty, whitespace only, ordinary, and
\* one character longer than MaxTextLength
Texts == {"", "  ", "hello", LongText}

\* new WebSocket(`${wsUrl}/tts?...`) throws a SyntaxError unless the URL is
\* absolute: with wsUrl '' it is "/tts?token=..."
UrlParses(wsUrl) == wsUrl # ""

\* initializeWebSocketClient and the reaction .catch(reject) to an
\* initialisation that rejects at once
InitializeWebSocketClient(st, k) ==
    IF config.token = ""
    THEN [st EXCEPT !.calls = Settle(@, k, "rejected", "NoToken", <<>>)]
    ELSE IF config.voiceId = ""
    THEN [st EXCEPT !.calls = Settle(@, k, "rejected", "NoVoiceId", <<>>)]
    ELSE IF ~UrlParses(config.wsUrl)
    THEN [st EXCEPT !.calls = Settle(@, k, "rejected", "SyntaxError", <<>>)]
    ELSE [st EXCEPT !.wsClient = k,
                    !.socks[k] = [state |-> "connecting", init |-> "pending",
                                  sent |-> <<>>,
                                  url |-> [token |-> config.token,
                                           voiceId |-> config.voiceId]]]

\* the promise executor as it would be if the flag were set only later
AcceptedWithoutLock(st, k) ==
    LET a == [st EXCEPT !.audioChunks = <<>>,
                        !.currentSessionId = k,
                        !.listeners = @ \cup {k},
                        !.calls[k] = [status |-> "pending", err |-> "",
                                      audio |-> <<>>]]
        b == Emit(a, Event(a, "start", <<>>, "", {}))
    IN InitializeWebSocketClient(b, k)

\* the promise executor of an accepted call k
Accepted(st, k) ==
    LET a == [st EXCEPT !.isProcessing = TRUE,
                        !.audioChunks = <<>>,
                        !.currentSessionId = k,
                        !.listeners = @ \cup {k},
                        !.calls[k] = [status |-> "pending", err |-> "",
                                      audio |-> <<>>]]
        b == Emit(a, Event(a, "start", <<>>, "", {}))
    IN InitializeWebSocketClient(b, k)

\* the checks of synthesizeText as they would be without the busy check
ThrowsWithoutBusyCheck(text) ==
    IF ~config.enabled THEN "Disabled"
    ELSE IF Len(Trim(text)) = 0 THEN "Empty"
    ELSE "none"

\* what synthesizeText throws before it creates the promise ("none": nothing)
Throws(text) ==
    IF ~config.enabled THEN "Disabled"
    ELSE IF Len(Trim(text)) = 0 THEN "Empty"
    ELSE IF isProcessing THEN "Busy"
    ELSE "none"

SynthesizeText(text) ==
    /\ ~crashed
    /\ nOps < MaxOps
    /\ lastThrow' = Throws(text)
    /\ IF Throws(text) = "none"
       THEN /\ Becomes(Accepted(St, nCalls + 1))
            /\ nCalls' = nCalls + 1
            /\ nOps' = nOps + 1
       ELSE /\ Becomes(St)
            /\ UNCHANGED <<nCalls, nOps>>
    /\ UNCHANGED <<config, nReqs, received, returned>>

\* ------------------------------------------------------------- socket events
\* the upstream accepts the connection
SocketOpen(s) ==
    /\ ~crashed
    /\ socks[s].state = "connecting"
    /\ Becomes(WsOnOpen([St EXCEPT !.socks[s].state = "open"], s))
    /\ UNCHANGED <<config, lastThrow, nCalls, nOps, nReqs, received, returned>>

\* the upstream sends frame f on socket s
SocketMessage(s, f) ==
    /\ ~crashed
    /\ socks[s].state \in {"open", "closing"}
    /\ nOps < MaxOps
    /\ nOps' = nOps + 1
    /\ Becomes(HandleWebSocketMessage(St, f))
    /\ received' = Append(received, [sock |-> s, frame |-> f,
                                     session |-> currentSessionId])
    /\ UNCHANGED <<config, lastThrow, nCalls, nReqs, returned>>

\* socket s fails: a handshake fails with 'error' and 'close'; an established
\* connection reports 'error' and closes later
SocketError(s) ==
    /\ ~crashed
    /\ socks[s].state \in {"connecting", "open", "closing"}
    /\ IF socks[s].state = "connecting"
       THEN Becomes(ErrorAndClose(St, s))
       ELSE Becomes(WsOnError([St EXCEPT !.socks[s].state = "errored"], s))
    /\ UNCHANGED <<config, lastThrow, nCalls, nOps, nReqs, received, returned>>

\* the connection of socket s has closed
SocketClose(s) ==
    /\ ~crashed
    /\ socks[s].state \in {"open", "closing", "errored"}
    /\ Becomes(WsOnClose([St EXCEPT !.socks[s].state = "closed"], s))
    /\ UNCHANGED <<config, lastThrow, nCalls, nOps, nReqs, received, returned>>

\* ------------------------------------------------------------ stopSynthesis
\* the body of stopSynthesis; what close() reports follows it in the same step
StopBody(st) ==
    LET s == st.wsClient
        a == [st EXCEPT !.wsClient = NoSock,
                        !.isProcessing = FALSE,
                        !.audioChunks = <<>>,
                        !.currentSessionId = NoSession]
    IN IF s # NoSock THEN CloseSocket(a, s) ELSE a

StopSynthesis ==
    /\ ~crashed
    /\ nOps < MaxOps
    /\ nOps' = nOps + 1
    /\ Becomes(StopBody(St))
    /\ UNCHANGED <<config, lastThrow, nCalls, nReqs, received, returned>>

\* ------------------------------------------------------------- updateConfig
UpdateConfig(p) ==
    /\ ~crashed
    /\ nOps < MaxOps
    /\ nOps' = nOps + 1
    /\ config' = Merge(config, p)
    /\ UNCHANGED <<isProcessing, wsClient, audioChunks, currentSessionId,
                   listeners, calls, socks, emitted, crashed, lastThrow,
                   nCalls, reqs, nReqs, received, returned>>

Next ==
    \/ \E text \in Texts : SynthesizeText(text)
    \/ \E s \in Socks : SocketOpen(s)
    \/ \E s \in Socks, f \in Frames : SocketMessage(s, f)
    \/ \E s \in Socks : SocketError(s)
    \/ \E s \in Socks : SocketClose(s)
    \/ StopSynthesis
    \/ \E p \in Partials : UpdateConfig(p)

Spec == Init /\ [][Next]_vars

\* ----------------------------------------------------------- status reads
\* return this.isProcessing
GetIsProcessing ==
    /\ ~crashed
    /\ nOps < MaxOps
    /\ nOps' = nOps + 1
    /\ returned' = [of |-> "getIsProcessing", flag |-> isProcessing,
                    config |-> DEFAULT_CONFIG, shared |-> FALSE]
    /\ UNCHANGED <<config, isProcessing, wsClient, audioChunks,
                   currentSessionId, listeners, calls, socks, emitted,
                   crashed, lastThrow, nCalls, reqs, nReqs, received>>

\* getConfig as it would be if it returned this.config itself
ReturnsSameObject(c) ==
    [of |-> "getConfig", flag |-> FALSE, config |-> c, shared |-> TRUE]

\* return { ...this.config }: a new object with the fields of c
ReturnsCopy(c) ==
    [of |-> "getConfig", flag |-> FALSE, config |-> c, shared |-> FALSE]

GetConfig ==
    /\ ~crashed
    /\ nOps < MaxOps
    /\ nOps' = nOps + 1
    /\ returned' = ReturnsCopy(config)
    /\ UNCHANGED <<config, isProcessing, wsClient, audioChunks,
                   currentSessionId, listeners, calls, socks, emitted,
                   crashed, lastThrow, nCalls, reqs, nReqs, received>>

\* assignments the caller makes to fields of the object getConfig returned
Modifications == { [speed |-> 20], [enabled |-> FALSE, token |-> ""] }

\* the caller of getConfig assigns to the object it got; an object shared
\* with the service is this.config
ModifyReturned(p) ==
    /\ ~crashed
    /\ returned.of = "getConfig"
    /\ nOps < MaxOps
    /\ nOps' = nOps + 1
    /\ returned' = [returned EXCEPT !.config = Merge(@, p)]
    /\ config' = IF returned.shared THEN Merge(config, p) ELSE config
    /\ UNCHANGED <<isProcessing, wsClient, audioChunks,
                   currentSessionId, listeners, calls, socks, emitted,
                   crashed, lastThrow, nCalls, reqs, nReqs, received>>

\* the service with callers that also read its status
ReadNext ==
    \/ Next
    \/ GetIsProcessing
    \/ GetConfig
    \/ \E p \in Modifications : ModifyReturned(p)

ReadSpec == Init /\ [][ReadNext]_vars

\* The service with callers that wait for the result and an upstream that
\* answers with audio in every framing and never fails.
FrameNext ==
    \/ \E text \in Texts : SynthesizeText(text)
    \/ \E s \in Socks : SocketOpen(s)
    \/ \E s \in Socks, f \in AudioFrames : SocketMessage(s, f)

FrameSpec == Init /\ [][FrameNext]_vars

\* The same service with an upstream that sends every kind of frame.
ClassifyNext ==
    \/ \E text \in Texts : SynthesizeText(text)
    \/ \E s \in Socks : SocketOpen(s)
    \/ \E s \in Socks, f \in ClassifierFrames : SocketMessage(s, f)

ClassifySpec == Init /\ [][ClassifyNext]_vars

\* ------------------------------------------------- POST /synthesize-stream
\* synthesizeValidation on body.text: notEmpty, isLength 1..MaxTextLength
Validates(text) == text # "" /\ Len(text) >= 1 /\ Len(text) <= MaxTextLength

\* body.speed: absent, or a speed (in tenths)
NoSpeed == 0
Speeds == {NoSpeed, 12}

\* the response and the listeners of a request that passed the validation,
\* up to the call of synthesizeText: 'connected' is written and the three
\* listeners are registered
Connected(call) ==
    Write([NoReq EXCEPT !.status = "sse", !.call = call, !.listening = TRUE],
          "connected", call)

\* the handler of POST /synthesize-stream, up to its await and, when
\* synthesizeText throws at once, through its catch block
SynthesizeStream(text, speed) ==
    /\ ~crashed
    /\ nOps < MaxOps
    /\ nOps' = nOps + 1
    /\ nReqs < MaxReqs
    /\ nReqs' = nReqs + 1
    /\ UNCHANGED <<received, returned>>
    /\ IF ~Validates(text)
       THEN /\ reqs' = [reqs EXCEPT ![nReqs + 1] =
                           [NoReq EXCEPT !.status = "400", !.ended = TRUE]]
            /\ UNCHANGED <<config, isProcessing, wsClient, audioChunks,
                           currentSessionId, listeners, calls, socks,
                           emitted, crashed, lastThrow, nCalls>>
       ELSE /\ config' = IF speed = NoSpeed THEN config
                         ELSE Merge(config, [speed |-> speed])
            /\ lastThrow' = Throws(text)
            /\ IF Throws(text) # "none"
               THEN /\ Becomes([St EXCEPT !.reqs[nReqs + 1] =
                                    StreamCatch(Connected(0))])
                    /\ UNCHANGED nCalls
               ELSE /\ Becomes(Accepted(
                           [St EXCEPT !.reqs[nReqs + 1] =
                               Connected(nCalls + 1)],
                           nCalls + 1))
                    /\ nCalls' = nCalls + 1

\* the handler of POST /synthesize, up to its await and, when synthesizeText
\* throws at once, through its catch block; the response of an accepted call
\* follows when the call is settled (200 with the audio, or 500)
Synthesize(text, speed) ==
    /\ ~crashed
    /\ nOps < MaxOps
    /\ nOps' = nOps + 1
    /\ nReqs < MaxReqs
    /\ nReqs' = nReqs + 1
    /\ UNCHANGED <<received, returned>>
    /\ IF ~Validates(text)
       THEN /\ reqs' = [reqs EXCEPT ![nReqs + 1] =
                           [NoReq EXCEPT !.status = "400", !.ended = TRUE]]
            /\ UNCHANGED <<config, isProcessing, wsClient, audioChunks,
                           currentSessionId, listeners, calls, socks,
                           emitted, crashed, lastThrow, nCalls>>
       ELSE /\ config' = IF speed = NoSpeed THEN config
                         ELSE Merge(config, [speed |-> speed])
            /\ lastThrow' = Throws(text)
            /\ IF Throws(text) # "none"
               THEN /\ Becomes([St EXCEPT !.reqs[nReqs + 1] =
                                    SynthesizeCatch(NoReq)])
                    /\ UNCHANGED nCalls
               ELSE /\ Becomes(Accepted(
                           [St EXCEPT !.reqs[nReqs + 1] =
                               [NoReq EXCEPT !.status = "awaiting",
                                             !.call = nCalls + 1]],
                           nCalls + 1))
                    /\ nCalls' = nCalls + 1

\* req.on('close') of request r: stopSynthesis(), and the three listeners
\* are removed before anything the stop causes is reported
ReqClose(r) ==
    /\ ~crashed
    /\ reqs[r].status = "sse"
    /\ ~reqs[r].closed
    /\ Becomes(StopBody([St EXCEPT !.reqs[r].closed = TRUE,
                                   !.reqs[r].listening = FALSE]))
    /\ UNCHANGED <<config, lastThrow, nCalls, nOps, nReqs, received, returned>>

\* the service as the HTTP server runs it: constructed by the controller,
\* used by POST /synthesize-stream, POST /synthesize and POST /stop
HttpInit == Init /\ config = Merge(DEFAULT_CONFIG, ControllerConfig)

HttpNext ==
    \/ \E s \in Socks : SocketOpen(s)
    \/ \E s \in Socks, f \in Frames : SocketMessage(s, f)
    \/ \E s \in Socks : SocketError(s)
    \/ \E s \in Socks : SocketClose(s)
    \/ StopSynthesis
    \/ \E text \in Texts, speed \in Speeds : SynthesizeStream(text, speed)
    \/ \E text \in Texts, speed \in Speeds : Synthesize(text, speed)
    \/ \E r \in Reqs : ReqClose(r)

HttpSpec == HttpInit /\ [][HttpNext]_vars

\* ============================================================== properties
Pending(k) == calls[k].status = "pending"
\* accepted calls that have not reached a terminal outcome
ActiveCalls == {k \in Calls : Pending(k)}
\* the engine is running session k for a caller that still waits
Running(k) == Pending(k) /\ isProcessing /\ currentSessionId = k
Live(s) == socks[s].state \in {"connecting", "open"}
Terminal == {"complete", "error", "cancelled"}
\* the notifications of session k: those that carry its id, and those
\* delivered to the listeners of its call
NotificationsOf(k) ==
    {i \in 1..Len(emitted) : emitted[i].sessionId = k \/ k \in emitted[i].to}
TerminalsOf(k) == {i \in NotificationsOf(k) : emitted[i].type \in Terminal}

\* C1: at most one accepted synthesizeText call is without a terminal outcome
\* at any instant.
C1_SingleActiveSession == Cardinality(ActiveCalls) <= 1

\* C2: the lock is taken by check-and-set: a call is accepted only when
\* isProcessing is false and sets it in the same step, and a call made while
\* isProcessing is true always throws; so of two calls issued back to back
\* from Idle exactly one is accepted and the other is rejected as Busy.
C2_CheckAndSet ==
    [][ /\ (nCalls' # nCalls =>
              ~isProcessing /\ isProcessing' /\ currentSessionId' = nCalls')
        /\ (isProcessing /\ lastThrow' # lastThrow => lastThrow' # "none")
        /\ (nCalls' # nCalls /\ config.enabled => Throws("hello")' = "Busy")
      ]_vars

\* C2 witness: two calls issued from Idle with nothing in between: the first
\* was accepted, the second was rejected as Busy.
C2_Witness ==
    /\ nCalls = 1 /\ lastThrow = "Busy" /\ Pending(1)
    /\ socks[1].state = "connecting" /\ Len(emitted) = 1
    /\ nOps = 1

\* C3: once a session is over (its caller was released, or the engine no
\* longer runs it), its notifications hold exactly one terminal notification
\* and none of its notifications comes after that one.
C3_OneTerminalLast ==
    \A k \in 1..nCalls :
        ~Running(k) =>
            /\ Cardinality(TerminalsOf(k)) = 1
            /\ \A i \in NotificationsOf(k), t \in TerminalsOf(k) : i <= t

\* C4: a stopSynthesis call made while a session is active emits a
\* cancellation notification and releases the pending caller of the session.
C4_StopCancels ==
    [][ \A k \in Calls :
          Pending(k) /\ StopSynthesis =>
            /\ ~Pending(k)'
            /\ Len(emitted') = Len(emitted) + 1
            /\ emitted'[Len(emitted')].type = "cancelled"
      ]_vars

\* C5: a stopSynthesis call made while a session is active closes the
\* connection opened for that session and leaves wsClient null.
C5_StopClosesTransport ==
    [][ \A k \in Calls :
          Pending(k) /\ Live(k) /\ StopSynthesis =>
            ~Live(k)' /\ wsClient' = NoSock
      ]_vars

\* C6: a session whose connection has closed without a completed frame has
\* failed: its caller is rejected and an error notification was delivered.
C6_CloseWithoutCompletionFails ==
    \A k \in Calls :
        (socks[k].state = "closed"
           /\ \A i \in NotificationsOf(k) : emitted[i].type # "complete")
        => /\ calls[k].status = "rejected"
           /\ \E i \in NotificationsOf(k) : emitted[i].type = "error"

\* an 'error' is reported on socket s in this step
ErrorReported(s) ==
    \/ socks[s].state \in {"connecting", "open", "closing"}
         /\ socks'[s].state = "errored"
    \/ socks[s].state = "connecting" /\ socks'[s].state = "closed"

\* C7: when the socket of a session whose caller still waits reports an
\* error, the caller is rejected with that error, exactly one error
\* notification is emitted (to that caller's listeners), and the lock is
\* released, so that the next valid call is accepted.
C7_SocketErrorFailsSession ==
    [][ \A k \in Calls :
          Pending(k) /\ ErrorReported(k) =>
            /\ calls'[k].status = "rejected"
            /\ calls'[k].err = "SocketError"
            /\ Len(emitted') = Len(emitted) + 1
            /\ emitted'[Len(emitted')].type = "error"
            /\ k \in emitted'[Len(emitted')].to
            /\ ~isProcessing'
            /\ ~crashed'
            /\ (config.enabled => Throws("hello")' = "none")
      ]_vars

\* C7 witness: the socket of an established session has reported an error:
\* its caller is rejected and the engine is free.
C7_Witness ==
    \E k \in Calls :
        /\ socks[k].state = "errored" /\ socks[k].init = "resolved"
        /\ calls[k].status = "rejected" /\ calls[k].err = "SocketError"
        /\ ~isProcessing
        /\ emitted # <<>> /\ emitted[Len(emitted)].type = "error"
        /\ k \in emitted[Len(emitted)].to

\* C8: once the latest accepted call has reached its outcome, the lock is
\* released.
C8_LockReleasedOnEveryExit ==
    \A k \in Calls :
        (k = nCalls /\ calls[k].status \in {"resolved", "rejected"})
        => ~isProcessing

\* C9: once a session has reached its outcome, no connection opened for it is
\* still open.
C9_TransportClosedOnExit ==
    \A k \in Calls :
        calls[k].status \in {"resolved", "rejected"} => ~Live(k)

\* C10: an explicit failure event on the connection of a session whose
\* caller still waits rejects the caller and emits exactly one error
\* notification.
C10_FailureEventTerminates ==
    [][ \A k \in Calls :
          Running(k) /\ SocketMessage(k, FailedFrame) =>
            /\ calls'[k].status = "rejected"
            /\ Len(emitted') = Len(emitted) + 1
            /\ emitted'[Len(emitted')].type = "error"
      ]_vars

\* C11: a synthesizeText call made with an empty or whitespace-only text,
\* while the service is disabled, or while isProcessing is set is rejected
\* at once; it creates no socket, emits nothing, accepts no call, and
\* leaves isProcessing, wsClient, audioChunks, currentSessionId and the
\* registered listeners as they were.
C11_RejectedCallChangesNothing ==
    [][ \A text \in Texts :
          SynthesizeText(text)
            /\ (~config.enabled \/ Len(Trim(text)) = 0 \/ isProcessing)
          => /\ lastThrow' # "none"
             /\ UNCHANGED <<isProcessing, wsClient, audioChunks,
                            currentSessionId, listeners, calls, socks,
                            emitted, crashed, nCalls>> ]_vars

\* a call was rejected as busy while a session with a socket, a registered
\* listener and accumulated audio was running
C11_Witness ==
    /\ lastThrow = "Busy"
    /\ isProcessing /\ wsClient # NoSock /\ currentSessionId # NoSession
    /\ audioChunks # <<>> /\ listeners # {}
    /\ Len(emitted) = 2
\* the text is empty, whitespace only, or longer than the maximum length
InvalidText(text) == Len(Trim(text)) = 0 \/ Len(text) > MaxTextLength
\* the rejections that apply to a call with this text in the current state
\* ("Empty" is the rejection of an invalid argument)
Applicable(text) ==
    (IF InvalidText(text) THEN {"Empty"} ELSE {})
      \cup (IF ~config.enabled THEN {"Disabled"} ELSE {})
      \cup (IF isProcessing THEN {"Busy"} ELSE {})

\* C12: a synthesizeText call with an empty, whitespace-only or over-long
\* text, or made while the service is disabled or busy, is rejected at once
\* with the rejection of its case, and no session is started.
C12_RejectsAtOnce ==
    [][ \A text \in Texts :
          SynthesizeText(text) /\ Applicable(text) # {}
          => /\ lastThrow' \in Applicable(text)
             /\ nCalls' = nCalls
             /\ UNCHANGED <<calls, currentSessionId, socks>> ]_vars
\* the audio bytes a frame carries: the decoded text of an audio event, or
\* the content of a binary frame
Payload(f) ==
    IF f.parses
    THEN IF f.event_type \in AudioEventTypes THEN B64Decode(AudioField(f))
         ELSE <<>>
    ELSE f.bytes
\* the frames handled while session k was the current one, in arrival order
FramesDuring(k) == SelectSeq(received, LAMBDA e : e.session = k)
\* all of them arrived on the connection of session k
OwnFramesOnly(k) ==
    \A i \in 1..Len(FramesDuring(k)) : FramesDuring(k)[i].sock = k
RECURSIVE Joined(_)
Joined(es) ==
    IF es = <<>> THEN <<>> ELSE Payload(Head(es).frame) \o Joined(Tail(es))

\* C13: when a session whose call is pending, and which so far handled
\* frames of its own connection only, handles a completed frame of that
\* connection, the call resolves to the payloads of those frames joined in
\* arrival order (zero-length payloads add nothing), and the complete
\* notification emitted in that step carries the same bytes.
C13_ResultIsConcatenation ==
    [][ \A k \in Calls :
          /\ Pending(k) /\ currentSessionId = k /\ OwnFramesOnly(k)
          /\ SocketMessage(k, CompletedFrame)
          => /\ calls'[k].status = "resolved"
             /\ calls'[k].audio = Joined(FramesDuring(k))
             /\ Len(emitted') = Len(emitted) + 1
             /\ emitted'[Len(emitted')].type = "complete"
             /\ emitted'[Len(emitted')].data = Joined(FramesDuring(k)) ]_vars

\* a call resolved to ABC followed by DE: two different chunks, in order
C13_Witness ==
    /\ calls[1].status = "resolved" /\ calls[1].audio = ABC \o DE
    /\ OwnFramesOnly(1) /\ Len(FramesDuring(1)) = 3
    /\ \E i \in 1..Len(emitted) :
         emitted[i].type = "complete" /\ emitted[i].data = ABC \o DE
\* C14: every request frame carries the voice id that the connection URL of
\* its call carries, which is the voice id of the configuration at the
\* moment the call was accepted.
C14_ParametersOfAcceptance ==
    \A s \in Socks : \A i \in 1..Len(socks[s].sent) :
      socks[s].sent[i].voiceId = socks[socks[s].sent[i].call].url.voiceId
\* no accepted call is without outcome and the engine is not processing
NothingActive == ActiveCalls = {} /\ ~isProcessing

\* C15: a stopSynthesis call made when nothing is active emits nothing,
\* raises nothing, settles no call and leaves isProcessing false,
\* audioChunks empty and currentSessionId null; and after any stopSynthesis
\* call a second one changes nothing.
C15_StopIsIdempotentNoOp ==
    [][ StopSynthesis
        => /\ NothingActive
              => /\ emitted' = emitted /\ ~crashed' /\ calls' = calls
                 /\ ~isProcessing' /\ audioChunks' = <<>>
                 /\ currentSessionId' = NoSession
           /\ ~crashed' => StopBody(St)' = St' ]_vars
\* C16: when the request of a streaming call closes while the session of
\* that call is running, the connection of the session is live no more, the
\* call gets its outcome and the step ends with a cancelled notification.
C16_RequestCloseCancels ==
    [][ \A r \in Reqs, k \in Calls :
          reqs[r].call = k /\ Running(k) /\ ReqClose(r)
          => /\ ~Live(k)' /\ wsClient' = NoSock
             /\ ~Pending(k)'
             /\ Len(emitted') = Len(emitted) + 1
             /\ emitted'[Len(emitted')].type = "cancelled" ]_vars
\* C17: updateConfig(p) gives every field of p the value p has for it, keeps
\* every other field of the configuration, and changes nothing else of the
\* engine.
C17_UpdateConfigMerges ==
    [][ \A p \in Partials :
          UpdateConfig(p)
          => /\ DOMAIN config' = DOMAIN config
             /\ \A f \in DOMAIN config :
                  config'[f] = IF f \in DOMAIN p THEN p[f] ELSE config[f]
             /\ UNCHANGED <<isProcessing, wsClient, audioChunks,
                            currentSessionId, listeners, calls, socks,
                            emitted>> ]_vars

\* updateConfig changed voiceId and speed of the controller's configuration
\* while a session was running: token and the other fields are kept
C17_Witness ==
    /\ config = [Merge(DEFAULT_CONFIG, ControllerConfig)
                    EXCEPT !.voiceId = "v2", !.speed = 12]
    /\ isProcessing /\ wsClient # NoSock /\ currentSessionId # NoSession
    /\ nOps = 2
\* C18: getIsProcessing and getConfig return the flag and the fields of the
\* configuration and change nothing of the engine, and assignments to the
\* object that getConfig returned change nothing of the engine either.
C18_ReadsChangeNothing ==
    [][ /\ GetIsProcessing => returned'.flag = isProcessing
        /\ GetConfig => returned'.config = config
        /\ (GetIsProcessing \/ GetConfig
               \/ \E p \in Modifications : ModifyReturned(p))
           => UNCHANGED <<config, isProcessing, wsClient, audioChunks,
                          currentSessionId, listeners, calls, socks,
                          emitted, crashed>> ]_vars

\* while a session runs, the caller holds an object returned by getConfig
\* that it has modified: it differs from the configuration of the engine
C18_Witness ==
    /\ returned.of = "getConfig"
    /\ returned.config # config
    /\ returned.config.speed = 20 /\ config.speed = 10
    /\ isProcessing /\ wsClient # NoSock
\* the events of a response are those of the documented stream: connected,
\* then audioChunk events of the request's own session, then, when the
\* response is ended, one complete or error event; nothing was written late
DocumentedStream(rq) ==
    LET w == rq.written
        n == Len(w)
    IN /\ n >= 1 /\ w[1].type = "connected"
       /\ \A i \in 2..n :
            \/ w[i].type = "audioChunk" /\ w[i].sessionId = rq.call
            \/ i = n /\ rq.ended /\ w[i].type \in {"complete", "error"}
       /\ rq.ended => n >= 2 /\ w[n].type \in {"complete", "error"}
       /\ ~rq.late

\* C19: the response of every streaming request that passed the validation
\* is the documented event stream, and nothing is written to it after it
\* was ended.
C19_DocumentedEventSequence ==
    \A r \in Reqs : reqs[r].status = "sse" => DocumentedStream(reqs[r])
\* C20: a frame that arrives on the connection of an earlier session while
\* a later session is the current one adds nothing to audioChunks, emits no
\* notification and settles no call.
C20_AccumulatorOfActiveSessionOnly ==
    [][ \A s \in Socks, f \in Frames :
          /\ currentSessionId # NoSession /\ s < currentSessionId
          /\ SocketMessage(s, f)
          => /\ audioChunks' = audioChunks
             /\ emitted' = emitted
             /\ calls' = calls ]_vars
\* C21: no synthesizeText call is accepted while a socket that stopSynthesis
\* asked to close has not reported its close yet.
C21_NoAcceptDuringTeardown ==
    [][ nCalls' # nCalls
        => \A s \in Socks : socks[s].state # "closing" ]_vars

\* C22: every connection was sent at most one request frame, and only the
\* request frame of the call that opened it.
C22_OneRequestOnOwnConnection ==
    \A s \in Socks :
      /\ Len(socks[s].sent) <= 1
      /\ \A i \in 1..Len(socks[s].sent) : socks[s].sent[i].call = s

\* C23: at most one socket the engine created is connecting or open.
C23_OneLiveConnection == Cardinality({s \in Socks : Live(s)}) <= 1

\* C24: when the current session, its call pending, handles a completed
\* frame of its connection, that step emits the complete notification with
\* the audio accumulated before the frame, resolves the call with it, and
\* leaves isProcessing false, audioChunks empty and currentSessionId null.
C24_CompletedEndsSession ==
    [][ \A k \in Calls :
          Pending(k) /\ currentSessionId = k /\ SocketMessage(k, CompletedFrame)
          => /\ emitted' = Append(emitted,
                   Event(St, "complete", Concat(audioChunks), "", listeners))
             /\ k \in listeners
             /\ calls'[k] = [status |-> "resolved", err |-> "",
                             audio |-> Concat(audioChunks)]
             /\ ~isProcessing'
             /\ audioChunks' = <<>>
             /\ currentSessionId' = NoSession ]_vars

\* a session that had accumulated ABC was ended by a completed frame
C24_Witness ==
    \E k \in Calls :
      /\ calls[k] = [status |-> "resolved", err |-> "", audio |-> ABC]
      /\ received # <<>>
      /\ received[Len(received)] =
           [sock |-> k, frame |-> CompletedFrame, session |-> k]
      /\ ~isProcessing /\ audioChunks = <<>> /\ currentSessionId = NoSession
      /\ emitted[Len(emitted)].type = "complete"

\* C25: every frame that carries a non-empty payload, as the decoded audio
\* field of a JSON audio event or as the content of a frame that is not
\* JSON, appends exactly that payload to audioChunks and emits the chunk
\* notification of that payload, whatever the framing.
C25_PayloadEquivalentFramings ==
    [][ \A s \in Socks, f \in ClassifierFrames :
          SocketMessage(s, f) /\ Payload(f) # <<>>
          => /\ audioChunks' = Append(audioChunks, Payload(f))
             /\ emitted' = Append(emitted,
                   Event(St, "audioChunk", Payload(f), "", {})) ]_vars

\* the first of data.delta, data.output_audio.data and data.data that is
\* present and not empty
FirstNonEmptyField(f) ==
    IF f.delta # Absent /\ f.delta # <<>> THEN f.delta
    ELSE IF f.output_audio # Absent /\ f.output_audio # <<>>
         THEN f.output_audio
    ELSE IF f.data # Absent /\ f.data # <<>> THEN f.data
    ELSE <<>>

\* C26: a JSON audio event appends the decoded bytes of the first of its
\* fields data.delta, data.output_audio.data, data.data that is present and
\* not empty.
C26_FirstNonEmptyFieldIsUsed ==
    [][ \A s \in Socks, f \in ClassifierFrames :
          /\ SocketMessage(s, f)
          /\ f.parses /\ f.event_type \in AudioEventTypes
          /\ B64Decode(FirstNonEmptyField(f)) # <<>>
          => audioChunks' =
               Append(audioChunks, B64Decode(FirstNonEmptyField(f))) ]_vars

\* the frame is an audio frame whose payload has no bytes
ZeroLengthAudio(f) ==
    \/ f.parses /\ f.event_type \in AudioEventTypes
         /\ B64Decode(FirstNonEmptyField(f)) = <<>>
    \/ ~f.parses /\ f.bytes = <<>>

\* C27: a frame whose audio payload has no bytes changes nothing: audioChunks
\* and the notifications are as before, no call is settled, and isProcessing
\* and the current session are as before.
C27_ZeroLengthIsNoOp ==
    [][ \A s \in Socks, f \in ClassifierFrames :
          SocketMessage(s, f) /\ ZeroLengthAudio(f)
          => UNCHANGED <<audioChunks, emitted, calls, isProcessing,
                         currentSessionId, listeners, wsClient, socks,
                         crashed>> ]_vars

\* a running session that holds ABC has just handled the frame whose delta
\* decodes to no bytes
C27_Witness ==
    \E k \in Calls :
      /\ Running(k) /\ audioChunks = <<ABC>>
      /\ Len(received) = 2
      /\ received[2] = [sock |-> k, frame |-> PaddingFrame, session |-> k]
      /\ Len(emitted) = 2

\* the frame starts like a JSON document and either does not parse or is of
\* a kind the service does not recognise
Malformed(f) ==
    f.brace /\ (~f.parses
                  \/ f.event_type \notin AudioEventTypes \cup {"speech.completed"})

\* C28: a malformed frame is dropped: the accumulator, the notifications, the
\* calls (none resolved, none rejected), isProcessing, the current session,
\* the listeners and the sockets are as before, so the frames that follow are
\* handled as if it had not arrived.
C28_MalformedFrameIsDropped ==
    [][ \A s \in Socks, f \in ClassifierFrames :
          SocketMessage(s, f) /\ Malformed(f)
          => UNCHANGED <<audioChunks, emitted, calls, isProcessing,
                         currentSessionId, listeners, wsClient, socks,
                         crashed, lastThrow, config>> ]_vars

\* after a frame that does not parse, the audio frame that followed it was
\* accumulated and notified, and the call is still pending
C28_Witness ==
    \E k \in Calls :
      /\ Running(k) /\ audioChunks = <<ABC>>
      /\ Len(received) = 2
      /\ received[1] = [sock |-> k, frame |-> BraceBinaryFrame, session |-> k]
      /\ received[2] = [sock |-> k, frame |-> DeltaFrame, session |-> k]
      /\ emitted[Len(emitted)].type = "audioChunk"

\* the audioChunk notifications of session k, in the order they were emitted
ChunkNotificationsOf(k) ==
    SelectSeq(emitted, LAMBDA e : e.type = "audioChunk" /\ e.sessionId = k)
RECURSIVE TotalSize(_)
TotalSize(es) == IF es = <<>> THEN 0 ELSE Len(Head(es).data) + TotalSize(Tail(es))

\* C29: the size of the i-th audioChunk notification of a session is the sum
\* of the lengths of the first i chunks of that session.
C29_SizeIsRunningTotal ==
    \A k \in Calls :
      \A i \in 1..Len(ChunkNotificationsOf(k)) :
        ChunkNotificationsOf(k)[i].size
          = TotalSize(SubSeq(ChunkNotificationsOf(k), 1, i))

\* the request frames of call k, on whichever socket they were sent
RequestsOf(k) ==
    {p \in Socks \X (1..MaxOps) :
       p[2] <= Len(socks[p[1]].sent) /\ socks[p[1]].sent[p[2]].call = k}

\* C30: a connection is created only in the step that accepts a call, and it
\* is the connection of that call; a connection that has failed, is closing
\* or has closed is never connecting or open again; and the request frame of
\* a call is sent at most once.
C30_OneConnectionNoRetry ==
    [][ /\ \A s \in Socks :
             socks[s].state = "none" /\ socks'[s].state # "none"
             => nCalls' = nCalls + 1 /\ s = nCalls'
        /\ \A s \in Socks :
             socks[s].state \in {"closing", "errored", "closed"}
             => socks'[s].state \in {"closing", "errored", "closed"}
        /\ \A k \in Calls : Cardinality(RequestsOf(k)') <= 1 ]_vars

\* the only session there was has failed after its request was sent: its
\* call is rejected, its socket has closed, and nothing else was created
C30_Witness ==
    /\ nCalls = 1
    /\ calls[1].status = "rejected"
    /\ socks[1].state = "closed" /\ Len(socks[1].sent) = 1
    /\ \A s \in Socks \ {1} : socks[s] = NoSocket
    /\ wsClient = NoSock /\ ~isProcessing

\* C31: the close of streaming request r leaves the running session of a
\* call that another request started as it is: the flag, the session id, the
\* accumulator, the connection and the call are unchanged.
C31_CloseStopsOwnSessionOnly ==
    [][ \A r \in Reqs, k \in Calls :
          ReqClose(r) /\ reqs[r].call # k /\ Running(k)
          => /\ isProcessing' /\ currentSessionId' = k
             /\ audioChunks' = audioChunks
             /\ wsClient' = wsClient /\ socks'[k] = socks[k]
             /\ calls'[k] = calls[k] ]_vars

\* C32: a POST /synthesize or POST /synthesize-stream request whose call the
\* engine rejects at once (disabled, empty text, busy) leaves the
\* configuration of the engine as it was, whatever speed it carried.
C32_RejectedRequestKeepsConfig ==
    [][ \A text \in Texts, speed \in Speeds :
          /\ SynthesizeStream(text, speed) \/ Synthesize(text, speed)
          /\ Validates(text) /\ Throws(text) # "none"
          => config' = config ]_vars
====
